---- MODULE Spec2Model ----
(***************************************************************************)
(* The two tutorial notebooks of the repository, run top to bottom in a    *)
(* fresh kernel:                                                           *)
(*   src/abTEM/atomic_models_with_ase.ipynb   (ASE / abTEM atomic models)  *)
(*   src/unnamed/part_000                     (Atomap sublattice tutorial) *)
(* A run executes the statements of one notebook in order.  The kernel     *)
(* state is the namespace (env), the imported submodules (loaded), the     *)
(* objects the statements create and mutate (heap) and the files of the    *)
(* working directory (files); raised holds the statements that raised.    *)
(* A statement that raises ends its cell; the cells after it may still be  *)
(* run.  Lengths are integers in units of 1e-7 Angstrom, written in ticks  *)
(* of 0.0005 A (Tick) so that 3.905 A and its half are exact, and fine     *)
(* enough to hold the tolerance of Atoms.wrap.                             *)
(***************************************************************************)
EXTENDS Integers, Sequences, FiniteSets, TLC

VARIABLES nb, pc, status, env, loaded, heap, nextId, mask, files, raised

vars == <<nb, pc, status, env, loaded, heap, nextId, mask, files, raised>>

(***************************************************************************)
(* Values of the namespace                                                 *)
(***************************************************************************)
V(kind, id) == [kind |-> kind, id |-> id]

Unbound == V("unbound", 0)

Opaque == V("value", 0)

(* n ticks of 0.0005 Angstrom *)
Tick(n) == 5000 * n

Ang(n) == Tick(2000 * n)

(***************************************************************************)
(* Vectors and Atoms objects (numbers, positions, cell, and the rotation   *)
(* about z that rotate(..., rotate_cell=True) applies to both positions    *)
(* and cell, in tenths of a degree).                                       *)
(***************************************************************************)
VAdd(u, v) == <<u[1] + v[1], u[2] + v[2], u[3] + v[3]>>

VScale(k, u) == <<k * u[1], k * u[2], k * u[3]>>

Diag(a, b, c) == << <<a, 0, 0>>, <<0, b, 0>>, <<0, 0, c>> >>

Atoms(numbers, positions, cell) ==
    [kind |-> "atoms", numbers |-> numbers, positions |-> positions,
     cell |-> cell, angle |-> 0]

Count(seq, z) == Cardinality({i \in DOMAIN seq : seq[i] = z})

(* Atomic numbers of the chemical symbols the notebooks name. *)
Z(sym) ==
    CASE sym = "C" -> 6
      [] sym = "N" -> 7
      [] sym = "O" -> 8
      [] sym = "Ti" -> 22
      [] sym = "Sr" -> 38
      [] sym = "La" -> 57

(* ase.Atoms("N2", positions=[(0,0,0),(1,0,0)], cell=[6,6,6]) *)
N2Molecule ==
    Atoms(<<Z("N"), Z("N")>>,
          << <<0, 0, 0>>, <<Ang(1), 0, 0>> >>,
          Diag(Ang(6), Ang(6), Ang(6)))

(* ase.Atoms("N", positions=[(2.0, 0, 0)]): no cell given, so a zero cell *)
NAtom == Atoms(<<Z("N")>>, << <<Ang(2), 0, 0>> >>, Diag(0, 0, 0))

SetNumberOnCopy(a, i, z) == a

(* atoms.numbers[i] = z: numbers is the array the object holds, so the    *)
(* assignment edits the object in place.                                   *)
SetNumber(a, i, z) == [a EXCEPT !.numbers[i] = z]

(* a += b (Atoms.extend): b's atoms are appended, a keeps its own cell.    *)
Extend(a, b) ==
    [a EXCEPT !.numbers = a.numbers \o b.numbers,
              !.positions = a.positions \o b.positions]

(* ase.spacegroup.crystal(['Sr','Ti','O'], atom_pos, spacegroup=221,       *)
(* cellpar=3.905): the cubic perovskite cell, the O site expanded to its   *)
(* three symmetry-equivalent positions.                                    *)
PerovskiteCell ==
    Atoms(<<Z("Sr"), Z("Ti"), Z("O"), Z("O"), Z("O")>>,
          << <<0, 0, 0>>, <<Tick(3905), Tick(3905), Tick(3905)>>,
             <<Tick(3905), Tick(3905), 0>>, <<Tick(3905), 0, Tick(3905)>>,
             <<0, Tick(3905), Tick(3905)>> >>,
          Diag(Tick(7810), Tick(7810), Tick(7810)))

(* surface(srtio3, indices=(1,1,0), layers=2, periodic=True): an           *)
(* orthogonal slab cell holding the species of srtio3; atoms on the cell   *)
(* edge may lie outside [0, L), by a whole cell length or by the rounding  *)
(* error of the floating-point arithmetic (one unit here).  The library's  *)
(* output is an input of the model, drawn from this set.                   *)
SurfaceOutcomes(a) ==
    { Atoms(<<Z("Sr"), Z("Ti"), Z("O")>>,
            << <<0, 0, 0>>, <<Tick(5522), Tick(3905), Tick(5522)>>,
               <<Tick(11045), Tick(3905), -1>> >>,
            Diag(Tick(11045), Tick(7810), Tick(11045))),
      Atoms(<<Z("Sr"), Z("O"), Z("Sr")>>,
            << <<0, 0, 0>>, <<Tick(4000), Tick(2500), Tick(8000) - 1>>,
               <<0 - Tick(4000), Tick(5000), Tick(4000)>> >>,
            Diag(Tick(8000), Tick(5000), Tick(8000))) }

(* Atoms.wrap() is called with no argument, so with eps = 1e-7: the        *)
(* tolerance is one part in WrapEpsInv of the cell length.                 *)
WrapEpsInv == 10000000

(* The tolerance along a cell vector of length L, in length units. *)
WrapShift(L) == L \div WrapEpsInv

WrapCoordNoEps(x, L) == x % L

(* One coordinate: the fractional coordinate is shifted by eps, taken      *)
(* modulo 1 and shifted back, so a coordinate less than eps below zero     *)
(* stays where it is.                                                      *)
WrapCoord(x, L) == ((x + WrapShift(L)) % L) - WrapShift(L)

(* Atoms.wrap() on an orthogonal cell, periodic in all three directions    *)
(* (surface(..., periodic=True)).                                          *)
Wrap(a) ==
    [a EXCEPT !.positions =
        [i \in DOMAIN a.positions |->
            [c \in 1..3 |-> WrapCoord(a.positions[i][c], a.cell[c][c])]]]

(* Block k (0-based) of a repetition by m: the loops run m[1] outermost,   *)
(* m[3] innermost.                                                         *)
BlockOffset(k, m, cell) ==
    LET i3 == k % m[3]
        i2 == (k \div m[3]) % m[2]
        i1 == k \div (m[3] * m[2])
    IN VAdd(VScale(i1, cell[1]), VAdd(VScale(i2, cell[2]), VScale(i3, cell[3])))

RepeatBroken(a, m) ==
    LET n == Len(a.numbers)
        M == m[1] * m[2] * m[3]
    IN [a EXCEPT
          !.numbers = [j \in 1..(M * n) |-> a.numbers[((j - 1) % n) + 1]],
          !.positions = [j \in 1..(M * n) |->
              VAdd(a.positions[((j - 1) % n) + 1],
                   BlockOffset((j - 1) \div n, m, a.cell))],
          !.cell = <<VScale(m[1], a.cell[1]), VScale(m[2], a.cell[2]),
                     VScale(m[2], a.cell[3])>>]

(* a *= m (Atoms.__imul__): the arrays are tiled m[1]*m[2]*m[3] times,     *)
(* each block shifted by its whole-number combination of cell vectors,     *)
(* and cell vector c is multiplied by m[c].                                *)
Repeat(a, m) ==
    LET n == Len(a.numbers)
        M == m[1] * m[2] * m[3]
    IN [a EXCEPT
          !.numbers = [j \in 1..(M * n) |-> a.numbers[((j - 1) % n) + 1]],
          !.positions = [j \in 1..(M * n) |->
              VAdd(a.positions[((j - 1) % n) + 1],
                   BlockOffset((j - 1) \div n, m, a.cell))],
          !.cell = <<VScale(m[1], a.cell[1]), VScale(m[2], a.cell[2]),
                     VScale(m[3], a.cell[3])>>]

(* mask = sto_lto.symbols == "Sr" *)
MaskSymbol(a, sym) == [i \in DOMAIN a.numbers |-> a.numbers[i] = Z(sym)]

MaskAndInclusive(m, a, limit) ==
    [i \in DOMAIN m |-> m[i] /\ a.positions[i][2] <= limit]

(* mask = mask * (sto_lto.positions[:, 1] < 7.5) *)
MaskAnd(m, a, limit) ==
    [i \in DOMAIN m |-> m[i] /\ a.positions[i][2] < limit]

(* sto_lto.numbers[mask] = 57 *)
MaskAssign(a, m, z) ==
    [a EXCEPT !.numbers =
        [i \in DOMAIN a.numbers |-> IF m[i] THEN z ELSE a.numbers[i]]]

SeqMin(S) == CHOOSE x \in S : \A y \in S : x <= y

SeqMax(S) == CHOOSE x \in S : \A y \in S : x >= y

CenterNoShift(a, k, v) ==
    LET coords == {a.positions[i][k] : i \in DOMAIN a.positions}
    IN [a EXCEPT !.cell[k][k] = (SeqMax(coords) - SeqMin(coords)) + 2 * v]

(* Atoms.center(vacuum=v, axis=k) on an orthogonal cell: the cell length   *)
(* along k becomes the extent of the atoms plus 2v and the atoms are       *)
(* shifted along k to sit in the middle.                                   *)
Center(a, k, v) ==
    LET coords == {a.positions[i][k] : i \in DOMAIN a.positions}
        lo == SeqMin(coords)
        hi == SeqMax(coords)
    IN [a EXCEPT
          !.positions = [i \in DOMAIN a.positions |->
              [a.positions[i] EXCEPT ![k] = @ - lo + v]],
          !.cell[k][k] = (hi - lo) + 2 * v]

(* Atoms.translate(d) *)
Translate(a, d) ==
    [a EXCEPT !.positions = [i \in DOMAIN a.positions |-> VAdd(a.positions[i], d)]]

(* Atoms.rotate(t, "z", rotate_cell=True) *)
Rotate(a, t) == [a EXCEPT !.angle = @ + t]

(* ase.build.graphene(vacuum=4): the two-atom hexagonal cell (a = 2.46 A), *)
(* 4 A of vacuum on each side of the sheet.                                *)
GrapheneCell ==
    Atoms(<<Z("C"), Z("C")>>,
          << <<0, 0, Ang(4)>>, <<0, Tick(2841), Ang(4)>> >>,
          << <<Tick(4920), 0, 0>>, <<0 - Tick(2460), Tick(4261), 0>>,
             <<0, 0, Ang(8)>> >>)

(* abtem.orthogonalize_cell(a, ...): a new structure, axis-aligned, made   *)
(* of a whole number of repetitions of a.                                  *)
OrthReps == 2

(* orthogonalize_cell(atoms) is called without max_repetitions for         *)
(* graphene: the default, 5.                                               *)
MaxRepetitions == 5

(* The whole-number combinations of cell vectors the search looks at. *)
Combos(reps) == (0 - reps..reps) \X (0 - reps..reps) \X (0 - reps..reps)

(* n[1]*cell[1] + n[2]*cell[2] + n[3]*cell[3] *)
LatticeVector(cell, n) ==
    VAdd(VScale(n[1], cell[1]), VAdd(VScale(n[2], cell[2]), VScale(n[3], cell[3])))

(* v points along Cartesian axis c, in the positive direction. *)
AlongAxis(v, c) == v[c] > 0 /\ \A d \in 1..3 : d # c => v[d] = 0

(* The combinations that give a lattice vector exactly along axis c. *)
AxisCombos(cell, c, reps) ==
    {n \in Combos(reps) : AlongAxis(LatticeVector(cell, n), c)}

LongestAlong(cell, c, reps) ==
    LET lens == {LatticeVector(cell, n)[c] : n \in AxisCombos(cell, c, reps)}
    IN [<<0, 0, 0>> EXCEPT ![c] = SeqMax(lens)]

(* best_orthogonal_cell: of the lattice vectors closest to axis c, the     *)
(* shortest.                                                               *)
ShortestAlong(cell, c, reps) ==
    LET lens == {LatticeVector(cell, n)[c] : n \in AxisCombos(cell, c, reps)}
    IN [<<0, 0, 0>> EXCEPT ![c] = SeqMin(lens)]

(* A point taken into the orthogonal box, as wrap() does. *)
WrapPoint(p, box) ==
    <<WrapCoord(p[1], box[1][1]), WrapCoord(p[2], box[2][2]),
      WrapCoord(p[3], box[3][3])>>

(* The atoms of the crystal of a that fall into the box: every atom of a,  *)
(* translated by the lattice of a, wrapped into the box, each kept once.   *)
AtomsInBox(a, box, reps) ==
    { [z |-> a.numbers[i],
       p |-> WrapPoint(VAdd(a.positions[i], LatticeVector(a.cell, n)), box)] :
        i \in DOMAIN a.numbers, n \in Combos(reps) }

(* Atom u comes before atom v: by species, then by x, y and z. *)
AtomBefore(u, v) ==
    LET a == <<u.z, u.p[1], u.p[2], u.p[3]>>
        b == <<v.z, v.p[1], v.p[2], v.p[3]>>
    IN \E k \in 1..4 : a[k] < b[k] /\ \A j \in 1..(k - 1) : a[j] = b[j]

(* The atoms of a finite set as a sequence (the order in which the library *)
(* lists the atoms is not modelled; they are listed sorted).               *)
SeqOf(S) ==
    [i \in 1..Cardinality(S) |->
        CHOOSE u \in S : Cardinality({v \in S : AtomBefore(v, u)}) = i - 1]

(* The exact case of orthogonalize_cell: lattice vectors of a lie along    *)
(* all three axes, the new cell is made of the shortest of them and no     *)
(* strain is applied.                                                      *)
OrthogonalCell(a, reps) ==
    LET box == <<ShortestAlong(a.cell, 1, reps), ShortestAlong(a.cell, 2, reps),
                 ShortestAlong(a.cell, 3, reps)>>
        ats == SeqOf(AtomsInBox(a, box, reps))
    IN Atoms([i \in DOMAIN ats |-> ats[i].z], [i \in DOMAIN ats |-> ats[i].p], box)

(* The rotated crystals have no lattice vector exactly along x and y: the  *)
(* library repeats the cell and strains it onto the axes, and which        *)
(* repetition it picks is an input of the model.                           *)
OrthogonalizeOutcomes(a) ==
    IF a.angle = 0
    THEN { OrthogonalCell(a, MaxRepetitions) }
    ELSE { Repeat([a EXCEPT !.angle = 0], <<r1, r2, 1>>) :
             r1 \in 1..OrthReps, r2 \in 1..OrthReps }

(* The object a copy() is stored in. *)
CopyAlias(srcId, fresh) == srcId

CopyTarget(srcId, fresh) == fresh

(***************************************************************************)
(* Statements.  reads: the names the statement reads (a dotted name is a   *)
(* submodule attribute); tgt: the name it binds or rebinds; src: the       *)
(* object it works on (for an import, the module imported); binds: other   *)
(* names it binds; arg: its literal arguments.                             *)
(***************************************************************************)
St(line, cell, op, tgt, src, reads, binds, arg) ==
    [line |-> line, cell |-> cell, op |-> op, tgt |-> tgt, src |-> src,
     reads |-> reads, binds |-> binds, arg |-> arg, other |-> ""]

(* A statement with a second object operand or a string argument. *)
St2(line, cell, op, tgt, src, other, reads) ==
    [St(line, cell, op, tgt, src, reads, {}, <<>>) EXCEPT !.other = other]

AbtemProgram ==
    << St(37, 1, "Import", "abtem", "abtem", {}, {}, <<>>),
       St(38, 1, "Import", "ase", "ase", {}, {}, <<>>),
       St(39, 1, "Import", "plt", "matplotlib.pyplot", {}, {}, <<>>),
       St(40, 1, "Import", "np", "numpy", {}, {}, <<>>),
       St(41, 1, "Import", "view", "ase.visualize", {}, {}, <<>>),
       St(67, 2, "NewAtoms", "atoms", "", {"ase"}, {}, <<>>),
       St(87, 3, "Display", "", "", {"atoms"}, {}, <<>>),
       St(97, 4, "Display", "", "", {"atoms"}, {}, <<>>),
       St(107, 5, "Display", "", "", {"atoms"}, {}, <<>>),
       St(117, 6, "Display", "", "", {"atoms"}, {}, <<>>),
       St(135, 7, "Display", "", "", {"atoms"}, {}, <<>>),
       St(145, 8, "SetNumber", "", "atoms", {"atoms"}, {}, <<1, 8>>),
       St(163, 9, "IAdd", "atoms", "atoms", {"atoms", "ase"}, {}, <<>>),
       St(165, 9, "Display", "", "", {"atoms"}, {}, <<>>),
       St(185, 10, "Display", "", "", {"abtem", "atoms"}, {}, <<>>),
       St(203, 11, "Import", "view", "ase.visualize", {}, {}, <<>>),
       St(205, 11, "Display", "", "", {"view", "atoms"}, {}, <<>>),
       St(225, 12, "Assign", "atom_pos", "", {}, {}, <<>>),
       St(226, 12, "Crystal", "srtio3", "",
          {"ase", "ase.spacegroup", "atom_pos"}, {}, <<>>),
       St(228, 12, "Display", "", "", {"abtem", "srtio3"}, {}, <<>>),
       St(251, 13, "Import", "surface", "ase.build", {}, {}, <<>>),
       St(253, 13, "Surface", "srtio3_110", "srtio3", {"surface", "srtio3"}, {}, <<>>),
       St(255, 13, "Display", "", "", {"abtem", "srtio3_110"}, {}, <<>>),
       St(273, 14, "Wrap", "", "srtio3_110", {"srtio3_110"}, {}, <<>>),
       St(275, 14, "Display", "", "", {"abtem", "srtio3_110"}, {}, <<>>),
       St(293, 15, "Copy", "repeated_srtio3", "srtio3_110", {"srtio3_110"}, {}, <<>>),
       St(295, 15, "IMul", "repeated_srtio3", "repeated_srtio3",
          {"repeated_srtio3"}, {}, <<3, 4, 10>>),
       St(297, 15, "Display", "", "", {"abtem", "repeated_srtio3"}, {}, <<>>),
       St(315, 16, "Display", "", "", {"abtem", "repeated_srtio3"}, {}, <<>>),
       St(335, 17, "Copy", "sto_lto", "repeated_srtio3", {"repeated_srtio3"}, {}, <<>>),
       St(337, 17, "MaskSymbol", "mask", "sto_lto", {"sto_lto"}, {}, <<>>),
       St(339, 17, "MaskAnd", "mask", "sto_lto", {"mask", "sto_lto"}, {}, <<Tick(15000)>>),
       St(341, 17, "MaskAssign", "", "sto_lto", {"sto_lto", "mask"}, {}, <<57>>),
       St(359, 18, "Center", "", "sto_lto", {"sto_lto"}, {}, <<3, Ang(5)>>),
       St(361, 18, "Display", "", "", {"plt"}, {"fig", "ax1", "ax2"}, <<>>),
       St(362, 18, "Display", "", "", {"abtem", "sto_lto", "ax1"}, {}, <<>>),
       St(363, 18, "Display", "", "", {"abtem", "sto_lto", "ax2"}, {}, <<>>),
       St(383, 19, "Import", "write", "ase.io", {}, {}, <<>>),
       St(385, 19, "WriteCif", "", "sto_lto", {"write", "sto_lto"}, {}, <<>>),
       St(403, 20, "ReadCif", "sto_lto", "", {"ase", "ase.io"}, {}, <<>>),
       St(425, 21, "Graphene", "graphene", "", {"ase", "ase.build"}, {}, <<>>),
       St(427, 21, "Display", "", "", {"abtem", "graphene"}, {}, <<>>),
       St(445, 22, "Orthogonalize", "orthogonal_graphene", "graphene",
          {"abtem", "graphene"}, {"transform"}, <<>>),
       St(447, 22, "Display", "", "", {"abtem", "orthogonal_graphene"}, {}, <<>>),
       St(457, 23, "Import", "pretty_print_transform", "abtem.atoms", {}, {}, <<>>),
       St(458, 23, "Display", "", "", {"pretty_print_transform", "transform"}, {}, <<>>),
       St(484, 24, "Display", "", "", {"abtem", "srtio3"}, {}, <<>>),
       St(494, 25, "Mul", "repeated_srtio3", "srtio3", {"srtio3"}, {}, <<1, 1, 8>>),
       St(496, 25, "Display", "", "", {"plt"}, {"fig", "ax1", "ax2"}, <<>>),
       St(497, 25, "Display", "", "", {"abtem", "repeated_srtio3", "ax1"}, {}, <<>>),
       St(498, 25, "Display", "", "", {"abtem", "repeated_srtio3", "ax2"}, {}, <<>>),
       St(499, 25, "Display", "", "", {"fig"}, {}, <<>>),
       St(509, 26, "Copy", "rotated_srtio3_1", "repeated_srtio3",
          {"repeated_srtio3"}, {}, <<>>),
       St(510, 26, "Rotate", "", "rotated_srtio3_1", {"rotated_srtio3_1"}, {}, <<44>>),
       St(512, 26, "Copy", "rotated_srtio3_2", "repeated_srtio3",
          {"repeated_srtio3"}, {}, <<>>),
       St(513, 26, "Rotate", "", "rotated_srtio3_2", {"rotated_srtio3_2"}, {}, <<-44>>),
       St(515, 26, "Display", "", "", {"plt"}, {"fig", "ax1", "ax2"}, <<>>),
       St(516, 26, "Display", "", "", {"abtem", "rotated_srtio3_1", "ax1"}, {}, <<>>),
       St(517, 26, "Display", "", "", {"abtem", "rotated_srtio3_2", "ax2"}, {}, <<>>),
       St(527, 27, "Import", "pretty_print_transform", "abtem.atoms", {}, {}, <<>>),
       St(529, 27, "Assign", "maxreps", "", {}, {}, <<12>>),
       St(531, 27, "Orthogonalize", "atoms_top", "rotated_srtio3_1",
          {"abtem", "rotated_srtio3_1", "maxreps"}, {"transform1"}, <<>>),
       St(535, 27, "Orthogonalize", "atoms", "rotated_srtio3_2",
          {"abtem", "rotated_srtio3_2", "maxreps"}, {"transform2"}, <<>>),
       St(539, 27, "Copy", "atoms_bottom", "atoms", {"atoms"}, {}, <<>>),
       St2(540, 27, "Translate", "", "atoms_bottom", "atoms_top",
           {"atoms_bottom", "atoms_top"}),
       St(542, 27, "Display", "", "", {"pretty_print_transform", "transform1"}, {}, <<>>),
       St(543, 27, "Display", "", "", {"pretty_print_transform", "transform2"}, {}, <<>>),
       St(545, 27, "Display", "", "", {"abtem", "atoms"}, {}, <<>>),
       St2(555, 28, "Add", "combined", "atoms_top", "atoms_bottom",
           {"atoms_top", "atoms_bottom"}),
       St(556, 28, "CellScale", "", "combined", {"combined"}, {}, <<3, 3, 2>>),
       St(557, 28, "Center", "", "combined", {"combined"}, {}, <<3, Ang(4)>>),
       St(559, 28, "Display", "", "", {"plt"}, {"fig", "ax1", "ax2"}, <<>>),
       St(560, 28, "Display", "", "", {"abtem", "combined", "ax1"}, {}, <<>>),
       St(561, 28, "Display", "", "", {"abtem", "combined", "ax2"}, {}, <<>>),
       St(562, 28, "Display", "", "", {"fig"}, {}, <<>>) >>

(* Imports, images, first sublattice and its refinement (cells 1-17). *)
AtomapSetup ==
    << St(63, 1, "Import", "hs", "hyperspy.api", {}, {}, <<>>),
       St(74, 2, "Import", "am", "atomap.api", {}, {}, <<>>),
       St2(99, 3, "HsLoad", "s", "", "ADF_image.hspy", {"hs"}),
       St(117, 4, "Display", "", "", {"s"}, {}, <<>>),
       St2(145, 5, "HsLoad", "s_abf", "", "ABF_image.hspy", {"hs"}),
       St(161, 6, "Display", "", "", {"s_abf"}, {}, <<>>),
       St(187, 7, "Assign", "get_live_fft", "", {}, {}, <<>>),
       St(211, 8, "Display", "", "", {"get_live_fft", "s", "hs"}, {}, <<>>),
       St(254, 9, "Assign", "s_peaks", "", {"am", "s"}, {}, <<>>),
       St(273, 10, "Display", "", "", {"s_peaks"}, {}, <<>>),
       St(291, 11, "GetAtomPositions", "atom_positions", "", {"am", "s"}, {}, <<12>>),
       St(327, 12, "NewSublattice", "sublattice_A", "atom_positions",
          {"am", "atom_positions", "s"}, {}, <<>>),
       St(345, 13, "Display", "", "", {"sublattice_A"}, {}, <<>>),
       St(365, 14, "FindNN", "", "sublattice_A", {"sublattice_A"}, {}, <<>>),
       St(374, 15, "RefineCOM", "", "sublattice_A", {"sublattice_A"}, {}, <<>>),
       St(392, 16, "RefineGauss", "", "sublattice_A", {"sublattice_A"}, {}, <<>>),
       St(410, 17, "Display", "", "", {"sublattice_A"}, {}, <<>>) >>

AtomapZoneAxesASkipped == <<>>

(* sublattice_A.construct_zone_axes() *)
AtomapZoneAxesA ==
    << St(435, 18, "ConstructZoneAxes", "", "sublattice_A", {"sublattice_A"}, {}, <<>>) >>

(* A-cation analysis; the sublattice on the inverted ABF image. *)
AtomapAnalysisA ==
    << St(453, 19, "ZoneOp", "", "sublattice_A", {"sublattice_A"}, {}, <<>>),
       St(480, 20, "ZoneOp", "monolayer_a", "sublattice_A", {"sublattice_A"}, {}, <<>>),
       St(491, 21, "Display", "", "", {"monolayer_a"}, {}, <<>>),
       St(525, 22, "ZoneOp", "zone_axis_111", "sublattice_A", {"sublattice_A"}, {}, <<>>),
       St(543, 23, "ZoneOp", "interface_layer_111", "sublattice_A",
          {"sublattice_A", "zone_axis_111"}, {}, <<>>),
       St(554, 24, "Display", "", "", {"interface_layer_111"}, {}, <<>>),
       St(572, 25, "ZoneOp", "s_A_monolayer", "sublattice_A",
          {"sublattice_A", "zone_axis_111", "interface_layer_111"}, {}, <<>>),
       St(590, 26, "Display", "", "", {"s_A_monolayer"}, {}, <<>>),
       St(608, 27, "Display", "", "", {"s_A_monolayer"}, {}, <<>>),
       St(628, 28, "Assign", "s_A_elli", "", {"sublattice_A"}, {}, <<>>),
       St(646, 29, "Display", "", "", {"s_A_elli"}, {}, <<>>),
       St(664, 30, "Assign", "s_A_elli_line", "",
          {"sublattice_A", "interface_layer_111"}, {}, <<>>),
       St(682, 31, "Display", "", "", {"s_A_elli_line"}, {}, <<>>),
       St(698, 32, "Display", "", "", {"sublattice_A"}, {}, <<>>),
       St(731, 33, "Assign", "data_abf_invert", "", {"s_abf"}, {}, <<>>),
       St(749, 34, "ReadPositions", "initial_position_A", "sublattice_A",
          {"sublattice_A"}, {}, <<>>),
       St2(760, 35, "NewSublattice", "sublattice_A2", "initial_position_A", "A",
          {"am", "initial_position_A", "data_abf_invert"}) >>

AtomapRefineA2Swapped ==
    << St(779, 36, "RefineCOM", "", "sublattice_A2", {"sublattice_A2"}, {}, <<>>),
       St(778, 36, "FindNN", "", "sublattice_A2", {"sublattice_A2"}, {}, <<>>),
       St(780, 36, "RefineGauss", "", "sublattice_A2", {"sublattice_A2"}, {}, <<>>),
       St(781, 36, "ConstructZoneAxes", "", "sublattice_A2", {"sublattice_A2"}, {}, <<>>) >>

(* "Then we run the same refinement as we did with the first sublattice." *)
AtomapRefineA2 ==
    << St(778, 36, "FindNN", "", "sublattice_A2", {"sublattice_A2"}, {}, <<>>),
       St(779, 36, "RefineCOM", "", "sublattice_A2", {"sublattice_A2"}, {}, <<>>),
       St(780, 36, "RefineGauss", "", "sublattice_A2", {"sublattice_A2"}, {}, <<>>),
       St(781, 36, "ConstructZoneAxes", "", "sublattice_A2", {"sublattice_A2"}, {}, <<>>) >>

(* B-cations, oxygen columns, the atom lattice, save and load,
   oxygen shifts, polarization. *)
AtomapOxygen ==
    << St(799, 37, "Display", "", "", {"sublattice_A2"}, {}, <<>>),
       St(817, 38, "Import", "remove_atoms_from_image_using_2d_gaussian",
          "atomap.tools", {}, {}, <<>>),
       St(828, 39, "Assign", "image_without_A2", "",
          {"remove_atoms_from_image_using_2d_gaussian", "sublattice_A2"}, {}, <<>>),
       St(848, 40, "ZoneOp", "", "sublattice_A2", {"sublattice_A2"}, {}, <<>>),
       St(866, 41, "ZoneOp", "zone_axis_001", "sublattice_A2", {"sublattice_A2"}, {}, <<>>),
       St(867, 41, "Display", "", "", {"zone_axis_001"}, {}, <<>>),
       St(885, 42, "FindMissing", "initial_positions_B", "sublattice_A2",
          {"sublattice_A2", "zone_axis_001"}, {}, <<>>),
       St2(903, 43, "NewSublattice", "sublattice_B2", "initial_positions_B", "B",
          {"am", "initial_positions_B", "image_without_A2"}),
       St(914, 44, "Display", "", "", {"sublattice_B2"}, {}, <<>>),
       St(925, 45, "FindNN", "", "sublattice_B2", {"sublattice_B2"}, {}, <<>>),
       St(926, 45, "RefineCOM", "", "sublattice_B2", {"sublattice_B2"}, {}, <<>>),
       St(927, 45, "RefineGauss", "", "sublattice_B2", {"sublattice_B2"}, {}, <<>>),
       St(928, 45, "ConstructZoneAxes", "", "sublattice_B2", {"sublattice_B2"}, {}, <<>>),
       St(946, 46, "Display", "", "", {"sublattice_B2"}, {}, <<>>),
       St(966, 47, "ZoneOp", "", "sublattice_B2", {"sublattice_B2"}, {}, <<>>),
       St(984, 48, "ZoneOp", "zone_axis_002", "sublattice_B2", {"sublattice_B2"}, {}, <<>>),
       St(985, 48, "FindMissing", "O_positions", "sublattice_B2",
          {"sublattice_B2", "zone_axis_002"}, {}, <<>>),
       St(986, 48, "Assign", "image_without_AB", "",
          {"remove_atoms_from_image_using_2d_gaussian", "sublattice_B2"}, {}, <<>>),
       St2(987, 48, "NewSublattice", "sublattice_O", "O_positions", "O",
          {"am", "O_positions", "image_without_AB"}),
       St(1005, 49, "Display", "", "", {"sublattice_O"}, {}, <<>>),
       St(1023, 50, "ConstructZoneAxes", "", "sublattice_O", {"sublattice_O"}, {}, <<>>),
       St(1024, 50, "RefineCOM", "", "sublattice_O", {"sublattice_O"}, {}, <<>>),
       St(1025, 50, "RefineGauss", "", "sublattice_O", {"sublattice_O"}, {}, <<>>),
       St(1036, 51, "Display", "", "", {"sublattice_O"}, {}, <<>>),
       St(1061, 52, "NewAtomLattice", "atom_lattice", "",
          {"am", "s_abf", "sublattice_A2", "sublattice_B2", "sublattice_O"}, {}, <<>>),
       St(1079, 53, "Display", "", "", {"atom_lattice"}, {}, <<>>),
       St(1097, 54, "Save", "", "atom_lattice", {"atom_lattice"}, {}, <<>>),
       St(1115, 55, "LoadLattice", "atom_lattice2", "", {"am"}, {}, <<>>),
       St(1139, 56, "IndexSublattice", "sublattice_A", "atom_lattice2",
          {"atom_lattice2"}, {}, <<1>>),
       St(1157, 57, "IndexSublattice", "sublattice_O", "atom_lattice2",
          {"atom_lattice2"}, {}, <<3>>),
       St(1175, 58, "ZoneOp", "s_o_atom_difference", "sublattice_O",
          {"sublattice_O", "sublattice_A"}, {}, <<>>),
       St(1195, 59, "Display", "", "", {"s_o_atom_difference"}, {}, <<>>),
       St(1222, 60, "DummyData", "atom_lattice", "", {"am"}, {}, <<>>),
       St(1223, 60, "Display", "", "", {"atom_lattice"}, {}, <<>>),
       St(1243, 61, "IndexSublattice", "sublatticeA", "atom_lattice",
          {"atom_lattice"}, {}, <<1>>),
       St(1244, 61, "ConstructZoneAxes", "", "sublatticeA", {"sublatticeA"}, {}, <<>>),
       St(1262, 62, "ZoneOp", "", "sublatticeA", {"sublatticeA"}, {}, <<>>),
       St(1280, 63, "ZoneOp", "za0", "sublatticeA", {"sublatticeA"}, {}, <<>>),
       St(1281, 63, "ZoneOp", "za1", "sublatticeA", {"sublatticeA"}, {}, <<>>),
       St(1282, 63, "IndexSublattice", "sublatticeB", "atom_lattice",
          {"atom_lattice"}, {}, <<2>>),
       St(1283, 63, "ZoneOp", "s_polarization", "sublatticeA",
          {"sublatticeA", "za0", "za1", "sublatticeB"}, {}, <<>>),
       St(1301, 64, "Display", "", "", {"s_polarization"}, {}, <<>>),
       St(1302, 64, "Assign", "vector_list", "", {"s_polarization"}, {}, <<>>) >>

AtomapProgram ==
    AtomapSetup \o AtomapZoneAxesA \o AtomapAnalysisA \o AtomapRefineA2 \o AtomapOxygen

(***************************************************************************)
(* Atomap objects                                                          *)
(***************************************************************************)
Positions(pts, fit) == [kind |-> "positions", pts |-> pts, fit |-> fit]

(* am.Sublattice(positions, image, name=...) *)
Sublattice(pts, name) ==
    [kind |-> "sublattice", pts |-> pts, fit |-> "initial", log |-> <<>>,
     zones |-> FALSE, name |-> name]

(* am.Atom_Lattice(image, name, sublattice_list): the list holds the       *)
(* sublattice objects themselves.                                          *)
AtomLattice(name, subs) == [kind |-> "lattice", name |-> name, subs |-> subs]

(* am.get_atom_positions(s, separation=12, pca=True): the peaks found in   *)
(* the image, an input of the model.                                       *)
PeakOutcomes ==
    { << <<0, 0>>, <<12, 0>>, <<24, 0>> >>,
      << <<0, 0>>, <<12, 0>>, <<0, 12>>, <<12, 12>> >> }

(* A method call of the notebook on a sublattice, recorded in call order.  *)
LogCall(o, method) == [o EXCEPT !.log = Append(@, method)]

(* find_missing_atoms_from_zone_vector: the positions half way between     *)
(* neighbouring atoms of a plane.                                          *)
MissingAtoms(pts) ==
    [i \in 1..(Len(pts) - 1) |->
        <<(pts[i][1] + pts[i + 1][1]) \div 2, (pts[i][2] + pts[i + 1][2]) \div 2>>]

DefaultFilenameFixed(name) == "atom_lattice.hdf5"

(* atom_lattice.save() with no filename writes <name>_atom_lattice.hdf5.   *)
DefaultFilename(name) == name \o "_atom_lattice.hdf5"

(* save(overwrite=...) replaces an existing file only when overwrite.      *)
SaveAllowed(exists, overwrite) == overwrite \/ ~exists

(* am.load_atom_lattice_from_hdf5(filename) is called without              *)
(* construct_zone_axes, whose default is True.                             *)
LoadZoneAxes == TRUE

(* A sublattice rebuilt from its stored arrays. *)
Restore(snap, construct) == [snap EXCEPT !.log = <<>>, !.zones = construct]

(* am.dummy_data.get_polarization_film_atom_lattice(): two sublattices,    *)
(* zone axes not constructed.                                              *)
DummyA == Sublattice(<< <<0, 0>>, <<20, 0>>, <<0, 20>>, <<20, 20>> >>, "A")

DummyB == Sublattice(<< <<9, 10>> >>, "B")

(***************************************************************************)
(* The kernel                                                              *)
(***************************************************************************)
Notebooks == {"abtem", "atomap"}

Program(n) == IF n = "abtem" THEN AbtemProgram ELSE AtomapProgram

Prog == Program(nb)

Cur == Prog[pc]

Binds(s) == ({s.tgt} \cup s.binds) \ {""}

NamesOf(prog) == UNION { Binds(prog[i]) \cup prog[i].reads : i \in DOMAIN prog }

Names == NamesOf(AbtemProgram) \cup NamesOf(AtomapProgram)

(* Submodules of ase: attributes of the package only once some import has  *)
(* loaded them.                                                            *)
Submodules == {"ase.spacegroup", "ase.io", "ase.build"}

(* What importing module m may load besides m itself: the imports that     *)
(* library code performs are not fixed by the notebook.                    *)
Transitive(m) ==
    IF m \in {"abtem", "ase", "ase.visualize", "ase.build", "ase.io", "abtem.atoms"}
    THEN Submodules ELSE {}

IsBound(n) == IF n \in Submodules THEN n \in loaded ELSE env[n].kind # "unbound"

Obj(name) == heap[env[name].id]

Exists(file) == file \in DOMAIN files

CifName == "sto_lto.cif"

LoadName == "ABO3_atom_lattice.hdf5"

(* The statement raises although every name it reads is bound. *)
OpFails(s) ==
    CASE s.op = "ReadCif" -> ~Exists(CifName)
      [] s.op = "HsLoad" -> ~Exists(s.other)
      [] s.op = "LoadLattice" -> ~Exists(LoadName)
      [] s.op = "Save" ->
            ~SaveAllowed(Exists(DefaultFilename(Obj(s.src).name)), TRUE)
      [] s.op = "IndexSublattice" -> s.arg[1] > Len(Obj(s.src).subs)
      [] s.op \in {"ZoneOp", "FindMissing"} -> ~Obj(s.src).zones
      [] OTHER -> FALSE

Unread(s) == {n \in s.reads : ~IsBound(n)}

(* A NameError comes before anything the operation could raise. *)
Fails(s) == IF Unread(s) # {} THEN TRUE ELSE OpFails(s)

Runs(op) == status = "running" /\ Cur.op = op /\ ~Fails(Cur)

Step ==
    /\ pc' = pc + 1
    /\ status' = IF pc = Len(Prog) THEN "done" ELSE "running"
    /\ nb' = nb
    /\ raised' = raised

SameStatement(p) == p

(* Where execution goes on after the statement at p has raised: the rest   *)
(* of its cell is not executed, the next cell starts at its first          *)
(* statement (past the end of the program if there is no next cell).       *)
NextCell(p) ==
    LET later == {i \in DOMAIN Prog : Prog[i].cell > Prog[p].cell}
    IN IF later = {} THEN Len(Prog) + 1 ELSE SeqMin(later)

(* env after the statement: tgt refers to object id, binds are values. *)
Rebind(s, v) ==
    [n \in DOMAIN env |->
        IF n = s.tgt THEN v ELSE IF n \in s.binds THEN Opaque ELSE env[n]]

(* A new object bound to the statement's target. *)
Alloc(rec) ==
    /\ heap' = (nextId :> rec) @@ heap
    /\ nextId' = nextId + 1
    /\ env' = Rebind(Cur, V("object", nextId))

(* The statement's object is changed in place. *)
Mutate(rec) ==
    /\ heap' = [heap EXCEPT ![env[Cur.src].id] = rec]
    /\ UNCHANGED <<env, nextId>>

(* The microscope images the Atomap notebook loads by file name. *)
InputImages == {"ADF_image.hspy", "ABF_image.hspy"}

(* The working directory before the run: a file the notebook reads may be  *)
(* there or not, a file it writes may be left from an earlier session.     *)
InitialFiles(n) ==
    IF n = "abtem"
    THEN { <<>>, (CifName :> [origin |-> "stale", data |-> <<N2Molecule>>]) }
    ELSE { stale @@ [f \in images |-> [origin |-> "input", data |-> <<>>]] :
             stale \in { <<>>,
                         (LoadName :> [origin |-> "stale",
                              data |-> <<Sublattice(<< <<1, 1>> >>, "stale")>>]) },
             images \in SUBSET InputImages }

Init ==
    /\ nb \in Notebooks
    /\ pc = 1
    /\ status = "running"
    /\ env = [n \in Names |-> Unbound]
    /\ loaded = {}
    /\ heap = <<>>
    /\ nextId = 1
    /\ mask = <<>>
    /\ files \in InitialFiles(nb)
    /\ raised = {}

(***************************************************************************)
(* Statements of both notebooks                                            *)
(***************************************************************************)
(* import m / import m as n / from m import n *)
Import ==
    /\ Runs("Import")
    /\ \E extra \in SUBSET Transitive(Cur.src) :
          loaded' = loaded \cup {Cur.src} \cup extra
    /\ env' = Rebind(Cur, V("module", 0))
    /\ Step
    /\ UNCHANGED <<heap, nextId, mask, files>>

(* An expression statement: an attribute shown, a plot drawn. *)
Display ==
    /\ Runs("Display")
    /\ env' = Rebind(Cur, Opaque)
    /\ Step
    /\ UNCHANGED <<loaded, heap, nextId, mask, files>>

(* A name bound to a literal, a function definition or a library result    *)
(* the model does not look into.                                           *)
Assign ==
    /\ Runs("Assign")
    /\ env' = Rebind(Cur, Opaque)
    /\ Step
    /\ UNCHANGED <<loaded, heap, nextId, mask, files>>

(* The statement raises: nothing is bound or changed, the cell's output   *)
(* holds the error and execution stops at the statement.                   *)
Raise ==
    /\ status = "running"
    /\ Fails(Cur)
    /\ status' = "failed"
    /\ raised' = raised \cup {pc}
    /\ UNCHANGED <<nb, pc, env, loaded, heap, nextId, mask, files>>

(* After a cell has raised the following cell is run (by hand; Run All     *)
(* stops at the error, which is the run that takes no further step).       *)
RunNextCell ==
    /\ status = "failed"
    /\ pc' = NextCell(pc)
    /\ status' = IF pc' > Len(Prog) THEN "done" ELSE "running"
    /\ UNCHANGED <<nb, env, loaded, heap, nextId, mask, files, raised>>

(***************************************************************************)
(* Statements of the abTEM notebook                                        *)
(***************************************************************************)
NewAtoms ==
    /\ Runs("NewAtoms")
    /\ Alloc(N2Molecule)
    /\ Step
    /\ UNCHANGED <<loaded, mask, files>>

SetNumberStmt ==
    /\ Runs("SetNumber")
    /\ Mutate(SetNumber(Obj(Cur.src), Cur.arg[1], Cur.arg[2]))
    /\ Step
    /\ UNCHANGED <<loaded, mask, files>>

IAdd ==
    /\ Runs("IAdd")
    /\ Mutate(Extend(Obj(Cur.src), NAtom))
    /\ Step
    /\ UNCHANGED <<loaded, mask, files>>

Crystal ==
    /\ Runs("Crystal")
    /\ Alloc(PerovskiteCell)
    /\ Step
    /\ UNCHANGED <<loaded, mask, files>>

Surface ==
    /\ Runs("Surface")
    /\ \E a \in SurfaceOutcomes(Obj(Cur.src)) : Alloc(a)
    /\ Step
    /\ UNCHANGED <<loaded, mask, files>>

WrapStmt ==
    /\ Runs("Wrap")
    /\ Mutate(Wrap(Obj(Cur.src)))
    /\ Step
    /\ UNCHANGED <<loaded, mask, files>>

(* tgt = src.copy() *)
Copy ==
    /\ Runs("Copy")
    /\ LET id == CopyTarget(env[Cur.src].id, nextId)
       IN /\ heap' = (id :> Obj(Cur.src)) @@ heap
          /\ env' = Rebind(Cur, V("object", id))
    /\ nextId' = nextId + 1
    /\ Step
    /\ UNCHANGED <<loaded, mask, files>>

(* src *= arg *)
IMul ==
    /\ Runs("IMul")
    /\ Mutate(Repeat(Obj(Cur.src), Cur.arg))
    /\ Step
    /\ UNCHANGED <<loaded, mask, files>>

(* tgt = src * arg: a repeated copy *)
Mul ==
    /\ Runs("Mul")
    /\ Alloc(Repeat(Obj(Cur.src), Cur.arg))
    /\ Step
    /\ UNCHANGED <<loaded, mask, files>>

MaskSymbolStmt ==
    /\ Runs("MaskSymbol")
    /\ mask' = MaskSymbol(Obj(Cur.src), "Sr")
    /\ env' = Rebind(Cur, Opaque)
    /\ Step
    /\ UNCHANGED <<loaded, heap, nextId, files>>

MaskAndStmt ==
    /\ Runs("MaskAnd")
    /\ mask' = MaskAnd(mask, Obj(Cur.src), Cur.arg[1])
    /\ env' = Rebind(Cur, Opaque)
    /\ Step
    /\ UNCHANGED <<loaded, heap, nextId, files>>

MaskAssignStmt ==
    /\ Runs("MaskAssign")
    /\ Mutate(MaskAssign(Obj(Cur.src), mask, Cur.arg[1]))
    /\ Step
    /\ UNCHANGED <<loaded, mask, files>>

CenterStmt ==
    /\ Runs("Center")
    /\ Mutate(Center(Obj(Cur.src), Cur.arg[1], Cur.arg[2]))
    /\ Step
    /\ UNCHANGED <<loaded, mask, files>>

(* write("sto_lto.cif", sto_lto): the file holds the structure written. *)
WriteCif ==
    /\ Runs("WriteCif")
    /\ files' = (CifName :> [origin |-> "run", data |-> <<Obj(Cur.src)>>]) @@ files
    /\ Step
    /\ UNCHANGED <<env, loaded, heap, nextId, mask>>

(* sto_lto = ase.io.read("sto_lto.cif"): a new object built from the file. *)
ReadCif ==
    /\ Runs("ReadCif")
    /\ Alloc(files[CifName].data[1])
    /\ Step
    /\ UNCHANGED <<loaded, mask, files>>

Graphene ==
    /\ Runs("Graphene")
    /\ Alloc(GrapheneCell)
    /\ Step
    /\ UNCHANGED <<loaded, mask, files>>

Orthogonalize ==
    /\ Runs("Orthogonalize")
    /\ \E a \in OrthogonalizeOutcomes(Obj(Cur.src)) : Alloc(a)
    /\ Step
    /\ UNCHANGED <<loaded, mask, files>>

RotateStmt ==
    /\ Runs("Rotate")
    /\ Mutate(Rotate(Obj(Cur.src), Cur.arg[1]))
    /\ Step
    /\ UNCHANGED <<loaded, mask, files>>

(* atoms_bottom.translate([0, 0, -atoms_top.cell[2,2]]) *)
TranslateStmt ==
    /\ Runs("Translate")
    /\ Mutate(Translate(Obj(Cur.src), <<0, 0, 0 - Obj(Cur.other).cell[3][3]>>))
    /\ Step
    /\ UNCHANGED <<loaded, mask, files>>

(* combined = atoms_top + atoms_bottom: a copy of the left operand,        *)
(* extended by the right one.                                              *)
Add ==
    /\ Runs("Add")
    /\ Alloc(Extend(Obj(Cur.src), Obj(Cur.other)))
    /\ Step
    /\ UNCHANGED <<loaded, mask, files>>

(* combined.cell[2,2] *= 2 *)
CellScale ==
    /\ Runs("CellScale")
    /\ Mutate([Obj(Cur.src) EXCEPT !.cell[Cur.arg[1]][Cur.arg[2]] = @ * Cur.arg[3]])
    /\ Step
    /\ UNCHANGED <<loaded, mask, files>>

(***************************************************************************)
(* Statements of the Atomap notebook                                       *)
(***************************************************************************)
(* s = hs.load("ADF_image.hspy") *)
HsLoad ==
    /\ Runs("HsLoad")
    /\ env' = Rebind(Cur, Opaque)
    /\ Step
    /\ UNCHANGED <<loaded, heap, nextId, mask, files>>

GetAtomPositions ==
    /\ Runs("GetAtomPositions")
    /\ \E pts \in PeakOutcomes : Alloc(Positions(pts, "initial"))
    /\ Step
    /\ UNCHANGED <<loaded, mask, files>>

NewSublattice ==
    /\ Runs("NewSublattice")
    /\ Alloc(Sublattice(Obj(Cur.src).pts, Cur.other))
    /\ Step
    /\ UNCHANGED <<loaded, mask, files>>

FindNN ==
    /\ Runs("FindNN")
    /\ Mutate(LogCall(Obj(Cur.src), "find_nearest_neighbors"))
    /\ Step
    /\ UNCHANGED <<loaded, mask, files>>

RefineCOM ==
    /\ Runs("RefineCOM")
    /\ Mutate([LogCall(Obj(Cur.src), "refine_atom_positions_using_center_of_mass")
                 EXCEPT !.fit = "center_of_mass"])
    /\ Step
    /\ UNCHANGED <<loaded, mask, files>>

RefineGauss ==
    /\ Runs("RefineGauss")
    /\ Mutate([LogCall(Obj(Cur.src), "refine_atom_positions_using_2d_gaussian")
                 EXCEPT !.fit = "2d_gaussian"])
    /\ Step
    /\ UNCHANGED <<loaded, mask, files>>

ConstructZoneAxes ==
    /\ Runs("ConstructZoneAxes")
    /\ Mutate([LogCall(Obj(Cur.src), "construct_zone_axes") EXCEPT !.zones = TRUE])
    /\ Step
    /\ UNCHANGED <<loaded, mask, files>>

(* An operation that needs the zone axes of its sublattice: reading        *)
(* zones_axis_average_distances or atom_planes_by_zone_vector, plot_planes,*)
(* get_monolayer_distance_map, get_monolayer_distance_line_profile,        *)
(* get_atom_distance_difference_map, get_polarization_from_second_sublattice. *)
ZoneOp ==
    /\ Runs("ZoneOp")
    /\ env' = Rebind(Cur, Opaque)
    /\ Step
    /\ UNCHANGED <<loaded, heap, nextId, mask, files>>

(* tgt = src.find_missing_atoms_from_zone_vector(zone_axis) *)
FindMissing ==
    /\ Runs("FindMissing")
    /\ Alloc(Positions(MissingAtoms(Obj(Cur.src).pts), "initial"))
    /\ Step
    /\ UNCHANGED <<loaded, mask, files>>

(* tgt = src.atom_positions *)
ReadPositions ==
    /\ Runs("ReadPositions")
    /\ Alloc(Positions(Obj(Cur.src).pts, Obj(Cur.src).fit))
    /\ Step
    /\ UNCHANGED <<loaded, mask, files>>

(* atom_lattice = am.Atom_Lattice(image=s_abf.data, name='ABO3',           *)
(*     sublattice_list=[sublattice_A2, sublattice_B2, sublattice_O])       *)
NewAtomLattice ==
    /\ Runs("NewAtomLattice")
    /\ Alloc(AtomLattice("ABO3", <<env["sublattice_A2"].id, env["sublattice_B2"].id,
                                   env["sublattice_O"].id>>))
    /\ Step
    /\ UNCHANGED <<loaded, mask, files>>

(* atom_lattice.save(overwrite=True) *)
Save ==
    /\ Runs("Save")
    /\ LET lat == Obj(Cur.src)
       IN files' = (DefaultFilename(lat.name) :>
                       [origin |-> "run",
                        data |-> [i \in DOMAIN lat.subs |-> heap[lat.subs[i]]]])
                   @@ files
    /\ Step
    /\ UNCHANGED <<env, loaded, heap, nextId, mask>>

(* atom_lattice2 = am.load_atom_lattice_from_hdf5("ABO3_atom_lattice.hdf5"): *)
(* new sublattice objects and a new lattice holding them.                  *)
LoadLattice ==
    /\ Runs("LoadLattice")
    /\ LET data == files[LoadName].data
           k == Len(data)
           ids == [i \in 1..k |-> nextId + i - 1]
       IN /\ heap' = [id \in nextId..(nextId + k) |->
                        IF id = nextId + k
                        THEN AtomLattice("", ids)
                        ELSE Restore(data[id - nextId + 1], LoadZoneAxes)] @@ heap
          /\ nextId' = nextId + k + 1
          /\ env' = Rebind(Cur, V("object", nextId + k))
    /\ Step
    /\ UNCHANGED <<loaded, mask, files>>

(* tgt = src.sublattice_list[i]: the object in the list, not a copy *)
IndexSublattice ==
    /\ Runs("IndexSublattice")
    /\ env' = Rebind(Cur, V("object", Obj(Cur.src).subs[Cur.arg[1]]))
    /\ Step
    /\ UNCHANGED <<loaded, heap, nextId, mask, files>>

(* atom_lattice = am.dummy_data.get_polarization_film_atom_lattice() *)
DummyData ==
    /\ Runs("DummyData")
    /\ heap' = (nextId :> DummyA) @@ (nextId + 1 :> DummyB)
               @@ (nextId + 2 :> AtomLattice("", <<nextId, nextId + 1>>)) @@ heap
    /\ nextId' = nextId + 3
    /\ env' = Rebind(Cur, V("object", nextId + 2))
    /\ Step
    /\ UNCHANGED <<loaded, mask, files>>

Next ==
    \/ Import \/ Display \/ Assign \/ Raise \/ RunNextCell
    \/ NewAtoms \/ SetNumberStmt \/ IAdd \/ Crystal \/ Surface \/ WrapStmt
    \/ Copy \/ IMul \/ Mul \/ MaskSymbolStmt \/ MaskAndStmt \/ MaskAssignStmt
    \/ CenterStmt \/ WriteCif \/ ReadCif \/ Graphene \/ Orthogonalize
    \/ RotateStmt \/ TranslateStmt \/ Add \/ CellScale
    \/ HsLoad \/ GetAtomPositions \/ NewSublattice \/ FindNN \/ RefineCOM
    \/ RefineGauss \/ ConstructZoneAxes \/ ZoneOp \/ FindMissing \/ ReadPositions
    \/ NewAtomLattice \/ Save \/ LoadLattice \/ IndexSublattice \/ DummyData

Spec == Init /\ [][Next]_vars

(***************************************************************************)
(* Properties                                                              *)
(***************************************************************************)
IndexOf(prog, line) == CHOOSE i \in DOMAIN prog : prog[i].line = line

(* Notebook n is about to execute its statement at the given line. *)
At(n, line) == nb = n /\ status = "running" /\ Cur.line = line

(* Notebook n has executed the statement at the given line: execution is  *)
(* past it and no statement of its cell up to it has raised.               *)
Past(n, line) ==
    /\ nb = n
    /\ pc > IndexOf(Program(n), line)
    /\ \A i \in raised :
          Prog[i].cell = Prog[IndexOf(Prog, line)].cell => i > IndexOf(Prog, line)

(* Notebook n has executed the statement at line l1 and not yet the one at l2. *)
Between(n, l1, l2) == Past(n, l1) /\ pc <= IndexOf(Program(n), l2)

C4_NoUnboundRead == status = "running" => Unread(Cur) = {}

(* C5: the in-place changes the abTEM notebook makes to a copy leave the   *)
(* object it was copied from as it was: *= on repeated_srtio3 leaves       *)
(* srtio3_110; the masked assignment and center on sto_lto leave           *)
(* repeated_srtio3; the two rotate calls leave repeated_srtio3; translate  *)
(* on atoms_bottom leaves atoms.                                           *)
C5_CopyIsolation ==
    [][ pc' # pc =>
          /\ At("abtem", 295) => Obj("srtio3_110")' = Obj("srtio3_110")
          /\ (At("abtem", 341) \/ At("abtem", 359)) =>
                Obj("repeated_srtio3")' = Obj("repeated_srtio3")
          /\ (At("abtem", 510) \/ At("abtem", 513)) =>
                Obj("repeated_srtio3")' = Obj("repeated_srtio3")
          /\ At("abtem", 540) => Obj("atoms")' = Obj("atoms") ]_vars

C5_Witness ==
    /\ Past("abtem", 540)
    /\ Obj("atoms_bottom") # Obj("atoms")
    /\ Obj("rotated_srtio3_1") # Obj("repeated_srtio3")
    /\ Obj("rotated_srtio3_2") # Obj("repeated_srtio3")
    /\ Len(Obj("srtio3_110").numbers) = 3

Sublattices == {id \in DOMAIN heap : heap[id].kind = "sublattice"}

(* Every call of b in the log comes after some call of a. *)
Before(log, a, b) ==
    \A i \in DOMAIN log : log[i] = b => \E j \in 1..(i - 1) : log[j] = a

Called(log, a) == \E i \in DOMAIN log : log[i] = a

(* C6 as stated: on every sublattice, find_nearest_neighbors is called     *)
(* before refine_atom_positions_using_center_of_mass, and that before      *)
(* refine_atom_positions_using_2d_gaussian.                                *)
C6_Original ==
    \A id \in Sublattices :
        /\ Before(heap[id].log, "find_nearest_neighbors",
                  "refine_atom_positions_using_center_of_mass")
        /\ Before(heap[id].log, "refine_atom_positions_using_center_of_mass",
                  "refine_atom_positions_using_2d_gaussian")

(* C6 amended: on every sublattice the centre-of-mass refinement comes     *)
(* before the 2D-Gaussian one; on sublattice_A, sublattice_A2 and          *)
(* sublattice_B2 find_nearest_neighbors is called before the               *)
(* centre-of-mass refinement; on sublattice_O (name "O") the notebook      *)
(* calls construct_zone_axes there instead, and never                      *)
(* find_nearest_neighbors.                                                 *)
C6_RefinementOrder ==
    \A id \in Sublattices :
        LET log == heap[id].log
        IN /\ Before(log, "refine_atom_positions_using_center_of_mass",
                     "refine_atom_positions_using_2d_gaussian")
           /\ heap[id].name # "O" =>
                 Before(log, "find_nearest_neighbors",
                        "refine_atom_positions_using_center_of_mass")
           /\ heap[id].name = "O" =>
                 /\ Before(log, "construct_zone_axes",
                           "refine_atom_positions_using_center_of_mass")
                 /\ ~Called(log, "find_nearest_neighbors")

C6_Witness ==
    /\ \E id \in Sublattices :
          /\ heap[id].name = "O"
          /\ Called(heap[id].log, "refine_atom_positions_using_2d_gaussian")
    /\ \E id \in Sublattices :
          /\ heap[id].name = "A"
          /\ Called(heap[id].log, "refine_atom_positions_using_2d_gaussian")

(* C7: whenever the notebook is about to perform a zone-axis-dependent     *)
(* operation on a sublattice, the zone axes of that object have been       *)
(* constructed.                                                            *)
C7_ZoneAxesBeforeUse ==
    (status = "running" /\ Cur.op \in {"ZoneOp", "FindMissing"} /\ Unread(Cur) = {})
        => Obj(Cur.src).zones

C7_Witness ==
    /\ Past("atomap", 1283)
    /\ env["s_o_atom_difference"].kind # "unbound"
    /\ env["s_polarization"].kind # "unbound"

(* C8: the step sto_lto.numbers[mask] = 57 gives an atom the number 57     *)
(* exactly when it was Sr with y < 7.5 A before; every other atom keeps    *)
(* its number; the number of atoms, the positions and the cell stay.       *)
C8_Substitution ==
    [][ (At("abtem", 341) /\ pc' # pc) =>
          LET before == Obj("sto_lto")
              after == Obj("sto_lto")'
          IN /\ Len(after.numbers) = Len(before.numbers)
             /\ after.positions = before.positions
             /\ after.cell = before.cell
             /\ \A i \in DOMAIN before.numbers :
                   /\ after.numbers[i] = 57 <=>
                         (before.numbers[i] = 38 /\ before.positions[i][2] < Tick(15000))
                   /\ after.numbers[i] # 57 => after.numbers[i] = before.numbers[i] ]_vars

C8_Witness ==
    /\ Between("abtem", 341, 359)
    /\ Count(Obj("sto_lto").numbers, 57) > 0
    /\ Count(Obj("sto_lto").numbers, 38) > 0
    /\ \E i \in DOMAIN Obj("sto_lto").numbers :
          Obj("sto_lto").numbers[i] = 38 /\ Obj("sto_lto").positions[i][2] = Tick(15000)

(* C9: after repeated_srtio3 *= (3, 4, 10), repeated_srtio3 has 120 times  *)
(* as many atoms of each species as srtio3_110, and its cell vectors are   *)
(* those of srtio3_110 multiplied by 3, 4 and 10.                          *)
C9_Repetition ==
    Between("abtem", 295, 494) =>
        LET r == Obj("repeated_srtio3")
            b == Obj("srtio3_110")
        IN /\ Len(r.numbers) = 120 * Len(b.numbers)
           /\ Len(r.positions) = Len(r.numbers)
           /\ \A z \in {b.numbers[i] : i \in DOMAIN b.numbers} \cup
                       {r.numbers[i] : i \in DOMAIN r.numbers} :
                 Count(r.numbers, z) = 120 * Count(b.numbers, z)
           /\ r.cell = <<VScale(3, b.cell[1]), VScale(4, b.cell[2]),
                         VScale(10, b.cell[3])>>

C9_Witness ==
    /\ Between("abtem", 295, 494)
    /\ Len(Obj("repeated_srtio3").numbers) = 360
    /\ Count(Obj("repeated_srtio3").numbers, 38) = 240

(* C10: after atoms.numbers[0] = 8 the N2 object itself reads NO, with     *)
(* positions and cell untouched; after atoms += Atoms("N", (2, 0, 0)) it   *)
(* has three atoms, numbers [8, 7, 7], the third at (2, 0, 0), and still   *)
(* the cell [6, 6, 6].                                                     *)
C10_MoleculeEditing ==
    /\ Between("abtem", 145, 163) =>
          /\ Obj("atoms").numbers = <<8, 7>>
          /\ Obj("atoms").positions = << <<0, 0, 0>>, <<Ang(1), 0, 0>> >>
          /\ Obj("atoms").cell = Diag(Ang(6), Ang(6), Ang(6))
    /\ Between("abtem", 163, 535) =>
          /\ Obj("atoms").numbers = <<8, 7, 7>>
          /\ Obj("atoms").positions =
                << <<0, 0, 0>>, <<Ang(1), 0, 0>>, <<Ang(2), 0, 0>> >>
          /\ Obj("atoms").cell = Diag(Ang(6), Ang(6), Ang(6))
    /\ Between("abtem", 67, 535) => env["atoms"].id = 1

C10_Witness ==
    /\ Between("abtem", 163, 535)
    /\ Len(Obj("atoms").numbers) = 3

(* Every coordinate of a, less the given fraction of the cell length, lies *)
(* in [0, L) along each of the three cell vectors.                         *)
InsideCell(a, withEps) ==
    \A i \in DOMAIN a.positions : \A c \in 1..3 :
        LET L == a.cell[c][c]
            lo == IF withEps THEN 0 - WrapShift(L) ELSE 0
        IN a.positions[i][c] >= lo /\ a.positions[i][c] < lo + L

(* b is a with every atom moved by whole cell vectors, nothing else changed. *)
MovedByCellVectors(a, b) ==
    /\ b.numbers = a.numbers
    /\ b.cell = a.cell
    /\ DOMAIN b.positions = DOMAIN a.positions
    /\ \A i \in DOMAIN a.positions : \A c \in 1..3 :
          (b.positions[i][c] - a.positions[i][c]) % a.cell[c][c] = 0

(* C11 as stated: srtio3_110.wrap() leaves every fractional coordinate in  *)
(* [0, 1), moves each atom by whole cell vectors only, keeps the atoms and *)
(* their species, and a second wrap changes nothing.                       *)
C11_Original ==
    [][ (At("abtem", 273) /\ pc' # pc) =>
          /\ InsideCell(Obj("srtio3_110")', FALSE)
          /\ MovedByCellVectors(Obj("srtio3_110"), Obj("srtio3_110")')
          /\ Wrap(Obj("srtio3_110")') = Obj("srtio3_110")' ]_vars

(* C11: srtio3_110.wrap() leaves every fractional coordinate in            *)
(* [-eps, 1 - eps) with eps = 1e-7 (an atom less than eps below a cell     *)
(* face stays there, one less than eps below the opposite face is moved    *)
(* to just below zero), moves each atom by whole cell vectors only, keeps  *)
(* the atoms and their species, and a second wrap changes nothing.         *)
C11_Wrapping ==
    [][ (At("abtem", 273) /\ pc' # pc) =>
          /\ InsideCell(Obj("srtio3_110")', TRUE)
          /\ MovedByCellVectors(Obj("srtio3_110"), Obj("srtio3_110")')
          /\ Wrap(Obj("srtio3_110")') = Obj("srtio3_110")' ]_vars

(* wrap() has run on a slab that had an atom a whole cell length outside   *)
(* the cell (now at 0) and an atom within the tolerance below a face (now  *)
(* just below zero).                                                       *)
C11_Witness ==
    /\ Between("abtem", 273, 293)
    /\ \E i \in DOMAIN Obj("srtio3_110").positions : \E c \in 1..3 :
          Obj("srtio3_110").positions[i][c] = -1
    /\ \E i \in 2..3 : \E c \in 1..3 : Obj("srtio3_110").positions[i][c] = 0

(* The coordinates of the atoms of a along axis k. *)
Coords(a, k) == {a.positions[i][k] : i \in DOMAIN a.positions}

(* C12: sto_lto.center(axis=2, vacuum=5) leaves the lowest atom 5 A above  *)
(* the bottom face of the cell along z and the highest atom 5 A below the  *)
(* top face, so the cell length along z is the z-extent of the atoms plus  *)
(* 10 A; the x and y coordinates of all atoms, the first two cell vectors, *)
(* the number of atoms and their species are unchanged.                    *)
C12_VacuumPadding ==
    [][ (At("abtem", 359) /\ pc' # pc) =>
          LET before == Obj("sto_lto")
              after == Obj("sto_lto")'
          IN /\ SeqMin(Coords(after, 3)) = Ang(5)
             /\ after.cell[3] = <<0, 0, SeqMax(Coords(after, 3)) + Ang(5)>>
             /\ after.cell[3][3] =
                   (SeqMax(Coords(before, 3)) - SeqMin(Coords(before, 3))) + Ang(10)
             /\ after.cell[1] = before.cell[1]
             /\ after.cell[2] = before.cell[2]
             /\ after.numbers = before.numbers
             /\ DOMAIN after.positions = DOMAIN before.positions
             /\ \A i \in DOMAIN before.positions :
                   /\ after.positions[i][1] = before.positions[i][1]
                   /\ after.positions[i][2] = before.positions[i][2] ]_vars

(* center has run on the 360-atom La-substituted crystal, whose atoms did  *)
(* not start at z = 5 A: the lowest is now at 5 A and the cell is longer   *)
(* than ten slab cells.                                                    *)
C12_Witness ==
    /\ Between("abtem", 359, 385)
    /\ Len(Obj("sto_lto").numbers) = 360
    /\ Count(Obj("sto_lto").numbers, Z("La")) > 0
    /\ SeqMin(Coords(Obj("sto_lto"), 3)) = Ang(5)
    /\ SeqMin(Coords(Obj("repeated_srtio3"), 3)) <= 0
    /\ Obj("sto_lto").cell[3][3] # Obj("repeated_srtio3").cell[3][3]

(* The determinant of a 3 x 3 matrix of small whole numbers. *)
Det3(m) ==
    m[1][1] * (m[2][2] * m[3][3] - m[2][3] * m[3][2])
    - m[1][2] * (m[2][1] * m[3][3] - m[2][3] * m[3][1])
    + m[1][3] * (m[2][1] * m[3][2] - m[2][2] * m[3][1])

(* The whole numbers n with v = n[1]*cell[1] + n[2]*cell[2] + n[3]*cell[3]. *)
CoefficientsOf(cell, v) ==
    CHOOSE n \in Combos(MaxRepetitions) : LatticeVector(cell, n) = v

(* o is the periodic crystal a in a larger cell: the cell vectors of o are *)
(* whole-number combinations of those of a, every atom of o is an atom of  *)
(* a of the same species moved by a lattice vector of a, no two atoms of o *)
(* coincide, and o holds as many copies of a as its cell holds cells of a. *)
SameCrystal(a, o) ==
    /\ \A c \in 1..3 :
          \E n \in Combos(MaxRepetitions) : LatticeVector(a.cell, n) = o.cell[c]
    /\ \A i \in DOMAIN o.numbers :
          \E j \in DOMAIN a.numbers : \E n \in Combos(MaxRepetitions) :
             /\ o.numbers[i] = a.numbers[j]
             /\ o.positions[i] = VAdd(a.positions[j], LatticeVector(a.cell, n))
    /\ \A i, j \in DOMAIN o.positions :
          o.positions[i] = o.positions[j] => i = j
    /\ LET index == Det3([c \in 1..3 |-> CoefficientsOf(a.cell, o.cell[c])])
       IN index >= 1 /\ Len(o.numbers) = index * Len(a.numbers)

(* C13: abtem.orthogonalize_cell(graphene) returns a structure whose cell  *)
(* vectors are pairwise orthogonal (each along its own Cartesian axis),    *)
(* that is the same periodic crystal as graphene in a whole-number         *)
(* repetition of its cell, and no lattice vector of graphene along an axis *)
(* is shorter than the cell vector along that axis.                        *)
C13_Orthogonalization ==
    [][ (At("abtem", 445) /\ pc' # pc) =>
          LET g == Obj("graphene")
              o == heap'[env'["orthogonal_graphene"].id]
          IN /\ \A c, d \in 1..3 : o.cell[c][d] # 0 <=> c = d
             /\ \A c \in 1..3 : o.cell[c][c] > 0
             /\ InsideCell(o, TRUE)
             /\ SameCrystal(g, o)
             /\ \A c \in 1..3 :
                   \A n \in AxisCombos(g.cell, c, MaxRepetitions) :
                      LatticeVector(g.cell, n)[c] >= o.cell[c][c] ]_vars

(* orthogonalize_cell has run on the hexagonal two-atom cell and returned  *)
(* the four-atom rectangular cell of 2.46 A by 4.261 A.                    *)
C13_Witness ==
    /\ Past("abtem", 445)
    /\ env["orthogonal_graphene"].kind = "object"
    /\ env["graphene"].kind = "object"
    /\ Obj("graphene").cell[2][1] # 0
    /\ Len(Obj("graphene").numbers) = 2
    /\ Len(Obj("orthogonal_graphene").numbers) = 4
    /\ Obj("orthogonal_graphene").cell = Diag(Tick(4920), Tick(8522), Ang(8))

(* The statements of cell c, the names they bind and the names they read. *)
CellStatements(c) == {i \in DOMAIN Prog : Prog[i].cell = c}

CellBinds(c) == UNION {Binds(Prog[i]) : i \in CellStatements(c)}

CellReads(c) == UNION {Prog[i].reads : i \in CellStatements(c)}

Cells == {Prog[i].cell : i \in DOMAIN Prog}

(* The cells in which a statement has raised. *)
RaisedCells == {Prog[i].cell : i \in raised}

(* Execution has gone past cell c. *)
Finished(c) == status = "done" \/ (pc <= Len(Prog) /\ Prog[pc].cell > c)

(* What a step may do around a failure: a statement that reads an unbound  *)
(* name or whose operation fails raises and changes nothing; after it the  *)
(* run goes on, if at all, with a later cell, never with the statement     *)
(* that raised or the rest of its cell, and nothing is bound in between;   *)
(* a name becomes bound only by a statement that binds it and runs.        *)
NoRecoveryStep ==
    /\ (status = "running" /\ Fails(Cur)) =>
          /\ status' = "failed"
          /\ <<pc, env, loaded, heap, mask, files>>' = <<pc, env, loaded, heap, mask, files>>
    /\ status = "failed" =>
          /\ pc' > pc
          /\ pc' <= Len(Prog) => Prog[pc'].cell > Prog[pc].cell
          /\ <<env, loaded, heap, mask, files>>' = <<env, loaded, heap, mask, files>>
    /\ \A n \in Names :
          (~IsBound(n) /\ IsBound(n)') =>
             /\ status = "running" /\ ~Fails(Cur)
             /\ n \in Binds(Cur) \/ (Cur.op = "Import" /\ n \in Submodules)

(* The claim's two statements about names, as stated: when a cell has      *)
(* raised, every name the cell would have bound is unbound, and every      *)
(* later cell that reads one of those names has raised too.                *)
OriginalNames ==
    /\ status = "failed" => \A n \in CellBinds(Cur.cell) : ~IsBound(n)
    /\ \A c \in RaisedCells : \A d \in Cells :
          (d > c /\ Finished(d) /\ CellReads(d) \cap CellBinds(c) # {})
             => d \in RaisedCells

(* C14 as stated: no retry, no fallback, the names of the failed cell stay *)
(* unbound, earlier names keep their values, and every later cell reading  *)
(* a name of the failed cell fails.                                        *)
C14_Original == [][NoRecoveryStep /\ OriginalNames']_vars

(* What holds of the names instead: the statements of the failed cell      *)
(* before the raising one have bound their names; a cell that ran to its   *)
(* end without raising found every name it reads bound (so a later cell    *)
(* reading a name that is still unbound raises); and when                  *)
(* hs.load("ADF_image.hspy") has raised, s is unbound for the rest of the  *)
(* run and every cell that reads s raises.                                 *)
AmendedNames ==
    /\ status = "failed" =>
          \A i \in CellStatements(Cur.cell) :
             i < pc => \A n \in Binds(Prog[i]) : IsBound(n)
    /\ \A d \in Cells :
          (Finished(d) /\ d \notin RaisedCells) => \A n \in CellReads(d) : IsBound(n)
    /\ (nb = "atomap" /\ IndexOf(Prog, 99) \in raised) =>
          /\ ~IsBound("s")
          /\ \A d \in Cells : (Finished(d) /\ "s" \in CellReads(d)) => d \in RaisedCells

(* C14: a statement that raises ends its cell and binds nothing; there is  *)
(* no retry and no fallback; names bound before it, by earlier cells or by *)
(* earlier statements of the same cell, keep their values; the names it    *)
(* and the rest of the cell would have bound keep the binding they had     *)
(* (none, if they were unbound); a later cell that reads a name which is   *)
(* still unbound raises as well, and one that reads a name some cell in    *)
(* between has bound again does not.                                       *)
C14_NoRecovery == [][NoRecoveryStep /\ AmendedNames']_vars

(* hs.load("ADF_image.hspy") has raised on the absent file, the cells      *)
(* that depend on s have raised down to the one building atom_lattice,     *)
(* and the run has gone on to its end: s is unbound, the names of earlier  *)
(* cells are bound, and atom_lattice is bound again by the dummy-data cell *)
(* whose followers ran.                                                    *)
C14_Witness ==
    /\ nb = "atomap"
    /\ status = "done"
    /\ ~Exists("ADF_image.hspy")
    /\ IndexOf(Prog, 99) \in raised
    /\ IndexOf(Prog, 291) \in raised
    /\ IndexOf(Prog, 1061) \in raised
    /\ ~IsBound("s") /\ ~IsBound("sublattice_A2")
    /\ IsBound("hs") /\ IsBound("am")
    /\ IsBound("atom_lattice") /\ IsBound("s_polarization")
    /\ 61 \notin RaisedCells

====
